---- MODULE Spec2Model ----
(***************************************************************************)
(* State-machine model of the StudyGPT retrieval engine:                   *)
(*   - GeminiClient.generate       (src/app/llm/gemini_client.py)          *)
(*   - chunk_text / run_ingestion  (src/scripts/run_ingestion.py)          *)
(*   - VectorStore                 (src/app/vector_store/vector_store.py)  *)
(***************************************************************************)
EXTENDS Integers, Sequences, FiniteSets, TLC

\* ------------------------------------------------------------------ bounds

\* Largest max_retries a GeminiClient is constructed with in the model.
MaxRetries == 6

\* Longest text handed to chunk_text on its own.
MaxTextLen == 4

\* Longest document text an ingestion run extracts.
MaxDocLen == 3

\* Ingestion runs followed.
MaxRuns == 2

\* Largest CHUNK_SIZE and OVERLAP configured.
MaxChunkSize == 4

\* Passages after which a chunk_text loop is no longer followed; more than
\* any loop that ends produces (at most one passage per character).
MaxPassages == 6

\* Requests the server has in flight.
NumRequests == 2

\* Longest text chunked with the shipped CHUNK_SIZE and OVERLAP.
MaxScenarioLen == 2050

\* submit_answer calls of an earlier server session whose progress file the
\* agent may find when it is constructed.
PriorSubmissions == 9

\* submit_answer calls followed in the session.
MaxSubmissions == 3

\* ----------------------------------------------------------------- helpers

Min(a, b) == IF a < b THEN a ELSE b

Last(s) == s[Len(s)]

\* =========================================================================
\* GeminiClient.generate
\* =========================================================================

VARIABLES
    max_retries,   \* self.max_retries
    attempt,       \* loop variable of `for attempt in range(self.max_retries)`
    last_error,    \* local last_error
    gpc,           \* position in generate: "attempt", "sleep", "returned", "raised"
    gen_result,    \* the value generate returned (NoValue until then)
    gen_raised,    \* the exception generate raised (NoValue until then)
    sleeps,        \* durations passed to time.sleep, in call order
    backend_log    \* what model.generate_content did at each call, in call order

genVars == <<max_retries, attempt, last_error, gpc, gen_result, gen_raised,
             sleeps, backend_log>>

VARIABLES
    CHUNK_SIZE,        \* module constant CHUNK_SIZE, as configured
    OVERLAP,           \* module constant OVERLAP, as configured
    pc,                \* position in run_ingestion / chunk_text
    run,               \* number of ingestion runs started so far
    raw_text,          \* the text being chunked (a sequence of characters)
    i,                 \* chunk_text: the cursor
    chunk_id,          \* chunk_text: the id counter
    chunks,            \* chunk_text: the list being built, then run_ingestion's chunks
    ei,                \* run_ingestion: position of `for chunk in chunks` (1-based)
    embeddings,        \* run_ingestion: embeddings
    valid_chunks,      \* run_ingestion: valid_chunks
    skipped,           \* ids logged by "Skipping chunk {id}"
    index,             \* <<the index returned by build_faiss_index>>, <<>> before
    error,             \* the exception that ended the run (NoValue if none)
    index_file,        \* content of data/faiss_index.bin
    chunks_file,       \* content of data/processed_chunks.json
    index_written_by,  \* the run that last wrote faiss_index.bin (0: never written)
    chunks_written_by, \* the run that last wrote processed_chunks.json (0: never written)
    spc,               \* the server's VectorStore: "down" or "up" (constructed)
    store_index,       \* VectorStore.index: <<the index>>, <<>> for None
    store_chunks,      \* VectorStore.chunks
    ret                \* <<what the last retrieve call did>>, <<>> before the first

chunkVars == <<CHUNK_SIZE, OVERLAP, pc, raw_text, i, chunk_id, chunks>>

ingestVars == <<run, ei, embeddings, valid_chunks, skipped, index, error>>

fileVars == <<index_file, chunks_file, index_written_by, chunks_written_by>>

storeVars == <<spc, store_index, store_chunks, ret>>

kbVars == <<chunkVars, ingestVars, fileVars, storeVars>>

VARIABLES
    reqs,          \* the /api/ask requests the server has received, by request
    loop_owner,    \* the request whose handler runs on the event loop (0: none)
    progress_file, \* content of data/progress.json
    sub_log,       \* the submit_answer calls made so far, in call order
    io_failed,     \* a load or a save of the progress file has failed
    submit_ret,    \* <<what the last submit_answer returned>>, <<>> before the first
    calls          \* submit_answer calls served by this agent object

serverVars == <<reqs, loop_owner>>

progressVars == <<progress_file, sub_log, io_failed, submit_ret, calls>>

appVars == <<serverVars, progressVars>>

vars == <<genVars, kbVars, appVars>>

NoValue == "None"

\* A file that does not exist.
NoFile == [state |-> "absent", data |-> <<>>]

\* A file a failed write left truncated: it cannot be read back.
Corrupt == [state |-> "corrupt", data |-> <<>>]

\* A file written completely; data is the sequence of objects it holds.
FileOf(data) == [state |-> "ok", data |-> data]

\* Non-empty texts the generation backend may answer with.
BackendTexts == {"t1", "t2"}

\* Exceptions the generation backend may raise.
BackendErrors == {"Timeout", "Quota"}

\* One call of self.model.generate_content(prompt) followed by the read of
\* response.text: an exception, or a response whose text may be empty.
BackendOutcomes ==
    [kind : {"exc"}, val : BackendErrors] \cup
    [kind : {"text"}, val : BackendTexts \cup {""}]

\* `if not response.text: raise ValueError("Empty response from Gemini")`
EmptyResponse == "ValueError: Empty response from Gemini"

\* The attempt succeeded: no exception and a non-empty response.text.
AttemptSucceeds(o) == o.kind = "text" /\ o.val # ""

\* The exception caught by `except Exception as e` for a failed attempt.
CaughtError(o) == IF o.kind = "exc" THEN o.val ELSE EmptyResponse

WaitTimeLinear(a) == Min(2 * a, 10)

\* wait_time = min(2 ** attempt, 10)
WaitTime(a) == Min(2 ^ a, 10)

GenInit ==
    /\ max_retries \in 0..MaxRetries
    /\ attempt = 0
    /\ last_error = NoValue
    /\ gpc = "attempt"
    /\ gen_result = NoValue
    /\ gen_raised = NoValue
    /\ sleeps = <<>>
    /\ backend_log = <<>>

\* The try block of one loop iteration: the backend call, then either the
\* return or the first half of the except block (last_error, wait_time).
GenerateAttempt ==
    /\ gpc = "attempt"
    /\ attempt < max_retries
    /\ \E o \in BackendOutcomes :
        /\ backend_log' = Append(backend_log, o)
        /\ IF AttemptSucceeds(o)
           THEN /\ gen_result' = o.val
                /\ gpc' = "returned"
                /\ UNCHANGED last_error
           ELSE /\ last_error' = CaughtError(o)
                /\ gpc' = "sleep"
                /\ UNCHANGED gen_result
    /\ UNCHANGED <<max_retries, attempt, gen_raised, sleeps>>
    /\ UNCHANGED <<kbVars, appVars>>

GenerateSleepSkipsLast ==
    /\ gpc = "sleep"
    /\ sleeps' = IF attempt + 1 < max_retries
                 THEN Append(sleeps, WaitTime(attempt))
                 ELSE sleeps
    /\ attempt' = attempt + 1
    /\ gpc' = "attempt"
    /\ UNCHANGED <<max_retries, last_error, gen_result, gen_raised, backend_log>>
    /\ UNCHANGED <<kbVars, appVars>>

\* time.sleep(wait_time), then the loop moves to the next attempt.
GenerateSleep ==
    /\ gpc = "sleep"
    /\ sleeps' = Append(sleeps, WaitTime(attempt))
    /\ attempt' = attempt + 1
    /\ gpc' = "attempt"
    /\ UNCHANGED <<max_retries, last_error, gen_result, gen_raised, backend_log>>
    /\ UNCHANGED <<kbVars, appVars>>

RaiseWithoutCause == [type |-> "RuntimeError", attempts |-> max_retries, cause |-> NoValue]

\* raise RuntimeError(f"Failed after {max_retries} attempts. Last error: {last_error}")
ExhaustedError == [type |-> "RuntimeError", attempts |-> max_retries, cause |-> last_error]

\* The loop is over without a return.
GenerateExhausted ==
    /\ gpc = "attempt"
    /\ attempt >= max_retries
    /\ gen_raised' = ExhaustedError
    /\ gpc' = "raised"
    /\ UNCHANGED <<max_retries, attempt, last_error, gen_result, sleeps, backend_log>>
    /\ UNCHANGED <<kbVars, appVars>>

GenNext == GenerateAttempt \/ GenerateSleep \/ GenerateExhausted

\* =========================================================================
\* chunk_text and run_ingestion
\* =========================================================================

\* Characters of the texts.
Alphabet == {"a", "b", "c"}

\* All texts of at most n characters.
Texts(n) == UNION {[1..m -> Alphabet] : m \in 0..n}

\* text[a:b], Python's slice of a sequence: negative indices count from the
\* end, indices are clipped to [0, len], an empty range gives the empty slice.
PySliceIndex(x, len) ==
    IF x < 0 THEN (IF x + len < 0 THEN 0 ELSE x + len)
    ELSE (IF x > len THEN len ELSE x)

PySlice(s, a, b) ==
    LET lo == PySliceIndex(a, Len(s))
        hi == PySliceIndex(b, Len(s))
    IN  IF lo >= hi THEN <<>> ELSE SubSeq(s, lo + 1, hi)

\* f"chunk_{chunk_id}"
ChunkIdStr(n) == "chunk_" \o ToString(n)

PassageUnclippedEnd(txt, c, n) ==
    LET chunk == PySlice(txt, c, c + CHUNK_SIZE)
    IN  [id |-> ChunkIdStr(n),
         text |-> chunk,
         metadata |-> [start_char |-> c,
                       end_char |-> c + CHUNK_SIZE,
                       source |-> "textbook"]]

\* The dict appended for the cursor position c and the id counter n.
Passage(txt, c, n) ==
    LET chunk == PySlice(txt, c, c + CHUNK_SIZE)
    IN  [id |-> ChunkIdStr(n),
         text |-> chunk,
         metadata |-> [start_char |-> c,
                       end_char |-> c + Len(chunk),
                       source |-> "textbook"]]

NextCursorSkipsOverlap(c) == c + CHUNK_SIZE

\* i += (CHUNK_SIZE - OVERLAP)
NextCursor(c) == c + (CHUNK_SIZE - OVERLAP)

\* One iteration of `while i < len(text)`.
ChunkStep ==
    /\ pc = "chunk_text"
    /\ i < Len(raw_text)
    /\ Len(chunks) < MaxPassages
    /\ chunks' = Append(chunks, Passage(raw_text, i, chunk_id))
    /\ chunk_id' = chunk_id + 1
    /\ i' = NextCursor(i)
    /\ UNCHANGED <<CHUNK_SIZE, OVERLAP, pc, raw_text>>
    /\ UNCHANGED <<ingestVars, fileVars, storeVars, genVars, appVars>>

\* The loop condition is false: chunk_text returns chunks; run_ingestion
\* goes on with `embeddings = []`, `valid_chunks = []` and the for loop.
ChunkReturn ==
    /\ pc = "chunk_text"
    /\ ~(i < Len(raw_text))
    /\ pc' = "embed"
    /\ ei' = 1
    /\ embeddings' = <<>>
    /\ valid_chunks' = <<>>
    /\ UNCHANGED <<CHUNK_SIZE, OVERLAP, raw_text, i, chunk_id, chunks>>
    /\ UNCHANGED <<run, skipped, index, error, fileVars, storeVars, genVars, appVars>>

ChunkNext == ChunkStep \/ ChunkReturn

\* ------------------------------------------------------------ run_ingestion

\* The characters of the documents ingested, repeated in this order.
DocLetters == <<"a", "b", "c">>

\* The text extract_text_from_pdf returns for a document of m characters.
Document(m) == [n \in 1..m |-> DocLetters[((n - 1) % Len(DocLetters)) + 1]]

\* The sizes the ingestion script is configured with.
IngestConfigs == {<<2, 1>>, <<3, 1>>}

CharCode(c) == CHOOSE n \in 1..Len(DocLetters) : DocLetters[n] = c

RECURSIVE CharSum(_)
CharSum(t) == IF t = <<>> THEN 0 ELSE CharCode(t[1]) + CharSum(Tail(t))

\* genai.embed_content(model="models/text-embedding-004", content=text)
\* ['embedding']: the remote model, a fixed function of the text to a vector
\* of fixed dimension.
Embed(t) == <<CharSum(t), Len(t)>>

\* build_faiss_index(embeddings) for a non-empty list: an IndexFlatL2 of the
\* dimension of the first vector holding the vectors in list order (the
\* values of the model are exact in float32).
BuildFaissIndex(e) == [d |-> Len(e[1]), ntotal |-> Len(e), vectors |-> e]

\* How a write of a file can end: written; failed before the file was
\* touched; failed after the file was opened for writing, which leaves it
\* truncated.
WriteOutcomes == {"ok", "untouched", "partial"}

NoTextError == "ValueError: No text extracted from PDF"

ExtractError == "PDF extraction failed"

EmptyListError == "IndexError: list index out of range"

WriteError == "OSError"

\* run_ingestion(pdf_path) is started: step 1, up to the call of chunk_text.
RunStart ==
    /\ pc = "idle"
    /\ spc = "down"
    /\ run < MaxRuns
    /\ run' = run + 1
    /\ i' = 0
    /\ chunk_id' = 0
    /\ chunks' = <<>>
    /\ UNCHANGED <<ei, embeddings, valid_chunks, skipped, index>>
    /\ \/ /\ raw_text' = <<>>
          /\ pc' = "failed"
          /\ error' = ExtractError
       \/ \E m \in 0..MaxDocLen :
            /\ raw_text' = Document(m)
            /\ IF Document(m) = <<>>
               THEN pc' = "failed" /\ error' = NoTextError
               ELSE pc' = "chunk_text" /\ error' = NoValue
    /\ UNCHANGED <<CHUNK_SIZE, OVERLAP, fileVars, storeVars, genVars, appVars>>

EmbedChunkKeepsAll ==
    /\ pc = "embed"
    /\ ei <= Len(chunks)
    /\ \/ /\ embeddings' = Append(embeddings, Embed(chunks[ei].text))
          /\ valid_chunks' = Append(valid_chunks, chunks[ei])
          /\ UNCHANGED skipped
       \/ /\ skipped' = skipped \cup {chunks[ei].id}
          /\ valid_chunks' = Append(valid_chunks, chunks[ei])
          /\ UNCHANGED embeddings
    /\ ei' = ei + 1
    /\ UNCHANGED <<chunkVars, run, index, error, fileVars, storeVars, genVars, appVars>>

\* One iteration of `for chunk in chunks`: get_embedding succeeds and the
\* chunk is kept, or it raises and the chunk is logged and skipped.
EmbedChunk ==
    /\ pc = "embed"
    /\ ei <= Len(chunks)
    /\ \/ /\ embeddings' = Append(embeddings, Embed(chunks[ei].text))
          /\ valid_chunks' = Append(valid_chunks, chunks[ei])
          /\ UNCHANGED skipped
       \/ /\ skipped' = skipped \cup {chunks[ei].id}
          /\ UNCHANGED <<embeddings, valid_chunks>>
    /\ ei' = ei + 1
    /\ UNCHANGED <<chunkVars, run, index, error, fileVars, storeVars, genVars, appVars>>

\* index = build_faiss_index(embeddings); embeddings[0] raises IndexError
\* on the empty list.
BuildIndex ==
    /\ pc = "embed"
    /\ ei > Len(chunks)
    /\ IF embeddings = <<>>
       THEN /\ pc' = "failed"
            /\ error' = EmptyListError
            /\ UNCHANGED index
       ELSE /\ index' = <<BuildFaissIndex(embeddings)>>
            /\ pc' = "write_index"
            /\ UNCHANGED error
    /\ UNCHANGED <<CHUNK_SIZE, OVERLAP, raw_text, i, chunk_id, chunks>>
    /\ UNCHANGED <<run, ei, embeddings, valid_chunks, skipped, fileVars, storeVars, genVars, appVars>>

\* faiss.write_index(index, "data/faiss_index.bin"), written in place.
WriteIndex ==
    /\ pc = "write_index"
    /\ \E w \in WriteOutcomes :
        /\ index_file' = CASE w = "ok" -> FileOf(index)
                           [] w = "untouched" -> index_file
                           [] w = "partial" -> Corrupt
        /\ index_written_by' = IF w = "untouched" THEN index_written_by ELSE run
        /\ pc' = IF w = "ok" THEN "write_chunks" ELSE "failed"
        /\ error' = IF w = "ok" THEN error ELSE WriteError
    /\ UNCHANGED <<CHUNK_SIZE, OVERLAP, raw_text, i, chunk_id, chunks>>
    /\ UNCHANGED <<run, ei, embeddings, valid_chunks, skipped, index>>
    /\ UNCHANGED <<chunks_file, chunks_written_by, storeVars, genVars, appVars>>

\* with open("data/processed_chunks.json", 'w') as f: json.dump(valid_chunks, f),
\* written in place.
WriteChunks ==
    /\ pc = "write_chunks"
    /\ \E w \in WriteOutcomes :
        /\ chunks_file' = CASE w = "ok" -> FileOf(valid_chunks)
                            [] w = "untouched" -> chunks_file
                            [] w = "partial" -> Corrupt
        /\ chunks_written_by' = IF w = "untouched" THEN chunks_written_by ELSE run
        /\ pc' = IF w = "ok" THEN "done" ELSE "failed"
        /\ error' = IF w = "ok" THEN error ELSE WriteError
    /\ UNCHANGED <<CHUNK_SIZE, OVERLAP, raw_text, i, chunk_id, chunks>>
    /\ UNCHANGED <<run, ei, embeddings, valid_chunks, skipped, index>>
    /\ UNCHANGED <<index_file, index_written_by, storeVars, genVars, appVars>>

\* The script's process ends, run_ingestion having returned or raised: its
\* variables are gone, the files stay.
ScriptExit ==
    /\ pc \in {"done", "failed"}
    /\ pc' = "idle"
    /\ raw_text' = <<>>
    /\ i' = 0
    /\ chunk_id' = 0
    /\ chunks' = <<>>
    /\ ei' = 1
    /\ embeddings' = <<>>
    /\ valid_chunks' = <<>>
    /\ skipped' = {}
    /\ index' = <<>>
    /\ error' = NoValue
    /\ UNCHANGED <<CHUNK_SIZE, OVERLAP, run, fileVars, storeVars, genVars, appVars>>

\* -------------------------------------------------------------- VectorStore

\* Queries passed to retrieve.
Queries == {<<"a">>, <<"b", "c">>}

\* retrieve(self, query, k: int = 3)
DefaultK == 3

\* The k passed to retrieve: none, fewer than the default, the default.
RetrieveKs == {0, 1, DefaultK}

\* _load_data: each file is read if it exists; any exception while reading
\* (a truncated file) resets both fields.
LoadData(ifile, cfile) ==
    IF ifile.state = "corrupt" \/ cfile.state = "corrupt"
    THEN [index |-> <<>>, chunks |-> <<>>]
    ELSE [index |-> IF ifile.state = "absent" THEN <<>> ELSE ifile.data,
          chunks |-> IF cfile.state = "absent" THEN <<>> ELSE cfile.data]

\* VectorStore(): the server constructs its store, between ingestion runs.
Startup ==
    /\ spc = "down"
    /\ pc = "idle"
    /\ spc' = "up"
    /\ store_index' = LoadData(index_file, chunks_file).index
    /\ store_chunks' = LoadData(index_file, chunks_file).chunks
    /\ UNCHANGED <<ret, chunkVars, ingestVars, fileVars, genVars, appVars>>

RECURSIVE SquaredDistance(_, _)
SquaredDistance(u, v) ==
    IF u = <<>> THEN 0
    ELSE (u[1] - v[1]) * (u[1] - v[1]) + SquaredDistance(Tail(u), Tail(v))

\* IndexFlatL2.search(x, k)[1][0]: k positions (0-based) by ascending squared
\* L2 distance, the lower position first among equals, padded with -1 when
\* the index holds fewer than k vectors.
Search(idx, x, k) ==
    LET dist(p) == SquaredDistance(idx.vectors[p + 1], x)
        before(q, p) == dist(q) < dist(p) \/ (dist(q) = dist(p) /\ q < p)
        rank(p) == Cardinality({q \in 0..(idx.ntotal - 1) : before(q, p)})
    IN  [n \in 1..k |->
            IF n <= idx.ntotal
            THEN CHOOSE p \in 0..(idx.ntotal - 1) : rank(p) = n - 1
            ELSE -1]

\* The search raises: the query's dimension is not the index's, or k is not
\* positive.
SearchRaises(idx, x, k) == Len(x) # idx.d \/ k <= 0

RECURSIVE MatchedChunksNoLowerBound(_, _)
MatchedChunksNoLowerBound(indices, chs) ==
    IF indices = <<>> THEN <<>>
    ELSE LET idx == indices[1]
             rest == MatchedChunksNoLowerBound(Tail(indices), chs)
         IN  IF idx < Len(chs)
             THEN <<chs[IF idx < 0 THEN Len(chs) + idx + 1 ELSE idx + 1]>> \o rest
             ELSE rest

\* results: the chunks at the returned positions that are in range.
RECURSIVE MatchedChunks(_, _)
MatchedChunks(indices, chs) ==
    IF indices = <<>> THEN <<>>
    ELSE LET idx == indices[1]
             rest == MatchedChunks(Tail(indices), chs)
         IN  IF 0 <= idx /\ idx < Len(chs) THEN <<chs[idx + 1]>> \o rest ELSE rest

RetrieveUncaught(query, k, embed_ok) ==
    IF store_index = <<>> \/ store_chunks = <<>>
    THEN [query |-> query, k |-> k, embed_called |-> FALSE, embed_ok |-> embed_ok,
          search_raised |-> FALSE, raised |-> FALSE, result |-> <<>>]
    ELSE IF ~embed_ok
    THEN [query |-> query, k |-> k, embed_called |-> TRUE, embed_ok |-> embed_ok,
          search_raised |-> FALSE, raised |-> TRUE, result |-> <<>>]
    ELSE IF SearchRaises(store_index[1], Embed(query), k)
    THEN [query |-> query, k |-> k, embed_called |-> TRUE, embed_ok |-> embed_ok,
          search_raised |-> TRUE, raised |-> TRUE, result |-> <<>>]
    ELSE [query |-> query, k |-> k, embed_called |-> TRUE, embed_ok |-> embed_ok,
          search_raised |-> FALSE, raised |-> FALSE,
          result |-> MatchedChunks(Search(store_index[1], Embed(query), k), store_chunks)]

\* retrieve(query, k), where embed_ok tells whether the embedding call of
\* _get_embedding succeeds: what it called, and what it returned or raised.
RetrieveOutcome(query, k, embed_ok) ==
    IF store_index = <<>> \/ store_chunks = <<>>
    THEN [query |-> query, k |-> k, embed_called |-> FALSE, embed_ok |-> embed_ok,
          search_raised |-> FALSE, raised |-> FALSE, result |-> <<>>]
    ELSE IF ~embed_ok
    THEN [query |-> query, k |-> k, embed_called |-> TRUE, embed_ok |-> embed_ok,
          search_raised |-> FALSE, raised |-> FALSE, result |-> <<>>]
    ELSE IF SearchRaises(store_index[1], Embed(query), k)
    THEN [query |-> query, k |-> k, embed_called |-> TRUE, embed_ok |-> embed_ok,
          search_raised |-> TRUE, raised |-> FALSE, result |-> <<>>]
    ELSE [query |-> query, k |-> k, embed_called |-> TRUE, embed_ok |-> embed_ok,
          search_raised |-> FALSE, raised |-> FALSE,
          result |-> MatchedChunks(Search(store_index[1], Embed(query), k), store_chunks)]

\* One call of retrieve on the constructed store.
Retrieve ==
    /\ spc = "up"
    /\ \E query \in Queries, k \in RetrieveKs, embed_ok \in BOOLEAN :
        ret' = <<RetrieveOutcome(query, k, embed_ok)>>
    /\ UNCHANGED <<spc, store_index, store_chunks>>
    /\ UNCHANGED <<chunkVars, ingestVars, fileVars, genVars, appVars>>

KBNext ==
    \/ RunStart
    \/ ChunkStep
    \/ ChunkReturn
    \/ EmbedChunk
    \/ BuildIndex
    \/ WriteIndex
    \/ WriteChunks
    \/ ScriptExit
    \/ Startup
    \/ Retrieve

\* The state of the ingestion and of the data directory before any run.
IngestIdle ==
    /\ run = 0
    /\ ei = 1
    /\ embeddings = <<>>
    /\ valid_chunks = <<>>
    /\ skipped = {}
    /\ index = <<>>
    /\ error = NoValue
    /\ index_file = NoFile
    /\ chunks_file = NoFile
    /\ index_written_by = 0
    /\ chunks_written_by = 0
    /\ spc = "down"
    /\ store_index = <<>>
    /\ store_chunks = <<>>
    /\ ret = <<>>

\* chunk_text(text) entered, for any text and any configured sizes.
ChunkInit ==
    /\ CHUNK_SIZE \in 1..MaxChunkSize
    /\ OVERLAP \in 0..MaxChunkSize
    /\ raw_text \in Texts(MaxTextLen)
    /\ pc = "chunk_text"
    /\ i = 0
    /\ chunk_id = 0
    /\ chunks = <<>>
    /\ IngestIdle

\* CHUNK_SIZE = 1000 and OVERLAP = 200, the values of the script.
DefaultChunkSize == 1000

DefaultOverlap == 200

\* Lengths of the texts chunked with the script's sizes: the multiples of 50
\* and their neighbours, which take in every multiple of 200 and its two
\* neighbours, and the longest text.
ScenarioLengths ==
    {m \in 0..MaxScenarioLen : (m % 50) \in {0, 1, 49}} \cup {MaxScenarioLen}

\* chunk_text(text) entered with the script's CHUNK_SIZE and OVERLAP.
ChunkDefaultInit ==
    /\ CHUNK_SIZE = DefaultChunkSize
    /\ OVERLAP = DefaultOverlap
    /\ raw_text \in {Document(m) : m \in ScenarioLengths}
    /\ pc = "chunk_text"
    /\ i = 0
    /\ chunk_id = 0
    /\ chunks = <<>>
    /\ IngestIdle

\* A generate call that has not started, for the specifications without it.
GenIdle ==
    /\ max_retries = 0
    /\ attempt = 0
    /\ last_error = NoValue
    /\ gpc = "idle"
    /\ gen_result = NoValue
    /\ gen_raised = NoValue
    /\ sleeps = <<>>
    /\ backend_log = <<>>

\* No chunking or ingestion, for the specifications without them.
KBIdle ==
    /\ CHUNK_SIZE = 1000
    /\ OVERLAP = 200
    /\ raw_text = <<>>
    /\ pc = "idle"
    /\ i = 0
    /\ chunk_id = 0
    /\ chunks = <<>>
    /\ IngestIdle

\* The ingestion script and the server, before the first run.
KBInit ==
    /\ \E c \in IngestConfigs : CHUNK_SIZE = c[1] /\ OVERLAP = c[2]
    /\ raw_text = <<>>
    /\ pc = "idle"
    /\ i = 0
    /\ chunk_id = 0
    /\ chunks = <<>>
    /\ IngestIdle

\* =========================================================================
\* The API server: ask_question -> MultiTaskAgent.explain -> generate
\* =========================================================================

Requests == 1..NumRequests

\* self.llm = GeminiClient(max_retries=3)
AgentMaxRetries == 3

\* explain's answer when anything in it raised.
FallbackExplanation == "Could not generate explanation. Please try another topic."

\* A request the server has received and whose handler has not run yet.
PendingRequest ==
    [pc |-> "pending", attempt |-> 0, last_error |-> NoValue, sleeps |-> <<>>,
     reply |-> NoValue]

\* The event loop, which runs one handler at a time on its single thread,
\* starts the handler of a waiting request: ask_question calls
\* agent.explain(topic), which retrieves, renders the prompt and enters
\* generate. The handler awaits nothing, so it keeps the thread until it
\* returns.
Dispatch(r) ==
    /\ loop_owner = 0
    /\ reqs[r].pc = "pending"
    /\ loop_owner' = r
    /\ reqs' = [reqs EXCEPT ![r].pc = "attempt"]
    /\ UNCHANGED <<progressVars, genVars, kbVars>>

\* One attempt of generate in the handler of r; a success ends the handler.
ReqAttempt(r) ==
    /\ loop_owner = r
    /\ reqs[r].pc = "attempt"
    /\ reqs[r].attempt < AgentMaxRetries
    /\ \E o \in BackendOutcomes :
        IF AttemptSucceeds(o)
        THEN /\ reqs' = [reqs EXCEPT ![r].pc = "done", ![r].reply = o.val]
             /\ loop_owner' = 0
        ELSE /\ reqs' = [reqs EXCEPT ![r].pc = "sleep", ![r].last_error = CaughtError(o)]
             /\ UNCHANGED loop_owner
    /\ UNCHANGED <<progressVars, genVars, kbVars>>

\* time.sleep(wait_time) in the handler of r: the thread of the event loop
\* sleeps.
ReqSleep(r) ==
    /\ loop_owner = r
    /\ reqs[r].pc = "sleep"
    /\ reqs' = [reqs EXCEPT ![r].pc = "attempt",
                            ![r].sleeps = Append(@, WaitTime(reqs[r].attempt)),
                            ![r].attempt = @ + 1]
    /\ UNCHANGED <<loop_owner, progressVars, genVars, kbVars>>

\* generate raises after the last attempt; explain catches it and answers
\* with the fallback text, which ends the handler.
ReqExhausted(r) ==
    /\ loop_owner = r
    /\ reqs[r].pc = "attempt"
    /\ reqs[r].attempt >= AgentMaxRetries
    /\ reqs' = [reqs EXCEPT ![r].pc = "done", ![r].reply = FallbackExplanation]
    /\ loop_owner' = 0
    /\ UNCHANGED <<progressVars, genVars, kbVars>>

DispatchSome == \E r \in Requests : Dispatch(r)

ReqAttemptSome == \E r \in Requests : ReqAttempt(r)

ReqSleepSome == \E r \in Requests : ReqSleep(r)

ReqExhaustedSome == \E r \in Requests : ReqExhausted(r)

ServerNext == DispatchSome \/ ReqAttemptSome \/ ReqSleepSome \/ ReqExhaustedSome

\* The server with its requests received and the event loop free.
ServerInit ==
    /\ reqs = [r \in Requests |-> PendingRequest]
    /\ loop_owner = 0

\* No request, for the specifications without the server.
ServerIdle ==
    /\ reqs = <<>>
    /\ loop_owner = 0

\* =========================================================================
\* MultiTaskAgent.submit_answer
\* =========================================================================

\* Topics answers are submitted for.
Topics == {"t1", "t2"}

\* json "{}": no topic has an entry (<<>>: the key is absent).
EmptyProgress == [t \in Topics |-> <<>>]

\* The progress file as _init_progress_file leaves it, and no call made.
ProgressIdle ==
    /\ progress_file = FileOf(EmptyProgress)
    /\ sub_log = <<>>
    /\ io_failed = FALSE
    /\ submit_ret = <<>>
    /\ calls = 0

\* Characters of the answers: a blank, a letter in both cases, another letter.
AnswerChars == {" ", "a", "A", "b"}

\* str.strip(): leading and trailing whitespace removed.
RECURSIVE LStrip(_)
LStrip(s) == IF s # <<>> /\ s[1] = " " THEN LStrip(Tail(s)) ELSE s

RECURSIVE RStrip(_)
RStrip(s) == IF s # <<>> /\ s[Len(s)] = " " THEN RStrip(SubSeq(s, 1, Len(s) - 1)) ELSE s

Strip(s) == RStrip(LStrip(s))

\* str.lower()
Lower(s) == [n \in 1..Len(s) |-> IF s[n] = "A" THEN "a" ELSE s[n]]

\* is_correct = user_answer.strip().lower() == correct_answer.strip().lower()
IsCorrect(user_answer, correct_answer) ==
    Lower(Strip(user_answer)) = Lower(Strip(correct_answer))

\* The <<user_answer, correct_answer>> pairs submitted: equal up to blanks
\* and case, different letters, equal only up to an inner blank.
AnswerPairs ==
    {<<(<<" ", "A", " ">>), (<<"a">>)>>,
     <<(<<"b">>), (<<"a">>)>>,
     <<(<<"a", " ", "a">>), (<<"a", "a">>)>>}

\* The result dict submit_answer hands to _update_progress.
Result(user_answer, correct_answer) ==
    [correct |-> IsCorrect(user_answer, correct_answer),
     user_answer |-> user_answer,
     correct_answer |-> correct_answer]

\* feedback
Feedback(user_answer, correct_answer) ==
    IF IsCorrect(user_answer, correct_answer)
    THEN <<"Correct! Well done.">>
    ELSE <<"Incorrect. The right answer is: ", correct_answer>>

\* `if len(history) > 10: history = history[-10:]`
HistoryLimit == 10

TrimHistoryKeepsOldest(history) ==
    IF Len(history) > HistoryLimit
    THEN PySlice(history, 0, HistoryLimit)
    ELSE history

TrimHistory(history) ==
    IF Len(history) > HistoryLimit
    THEN PySlice(history, 0 - HistoryLimit, Len(history))
    ELSE history

\* progress[topic] = {"attempts": 0, "correct": 0, "history": []}
NewTopicEntry == [attempts |-> 0, correct |-> 0, history |-> <<>>]

\* The dict _update_progress holds when it reaches the save: the topic's
\* entry initialised if needed, counted, appended to and trimmed.
UpdateProgress(progress, topic, result) ==
    LET old == IF progress[topic] = <<>> THEN NewTopicEntry ELSE progress[topic][1]
        new == [attempts |-> old.attempts + 1,
                correct |-> IF result.correct THEN old.correct + 1 ELSE old.correct,
                history |-> TrimHistory(Append(old.history, result))]
    IN  [progress EXCEPT ![topic] = <<new>>]

\* The progress file a failed write_text left truncated.
TruncatedProgress == [state |-> "corrupt", data |-> EmptyProgress]

\* _load_progress: the parsed file, or {} when the read or the parse raises.
LoadSucceeds(file, read_ok) == read_ok /\ file.state = "ok"

LoadProgress(file, read_ok) ==
    IF LoadSucceeds(file, read_ok) THEN file.data ELSE EmptyProgress

\* write_text: written, failed before the file was opened, failed midway.
SaveOutcomes == {"ok", "untouched", "truncated"}

\* The submissions of the earlier session: n answers on topic t1, right and
\* wrong ones in turn.
PriorCall(n) ==
    IF n % 2 = 1
    THEN [topic |-> "t1", user_answer |-> <<" ", "A", " ">>, correct_answer |-> <<"a">>]
    ELSE [topic |-> "t1", user_answer |-> <<"b">>, correct_answer |-> <<"a">>]

\* The progress the earlier session's first n calls leave, none failing.
RECURSIVE PriorProgress(_)
PriorProgress(n) ==
    IF n = 0 THEN EmptyProgress
    ELSE UpdateProgress(PriorProgress(n - 1), PriorCall(n).topic,
                        Result(PriorCall(n).user_answer, PriorCall(n).correct_answer))

\* What the log of calls records of one submit_answer call.
LogEntry(topic, user_answer, correct_answer, is_correct) ==
    [topic |-> topic, user_answer |-> user_answer,
     correct_answer |-> correct_answer, correct |-> is_correct]

\* MultiTaskAgent(): the progress file is new ("{}") or the one an earlier
\* session left.
ProgressInit ==
    /\ \E prior \in {0, PriorSubmissions} :
          /\ progress_file = FileOf(PriorProgress(prior))
          /\ sub_log = [n \in 1..prior |->
                           LogEntry(PriorCall(n).topic, PriorCall(n).user_answer,
                                    PriorCall(n).correct_answer,
                                    IsCorrect(PriorCall(n).user_answer,
                                              PriorCall(n).correct_answer))]
    /\ io_failed = FALSE
    /\ submit_ret = <<>>
    /\ calls = 0

\* One call of submit_answer, _update_progress included; read_ok tells
\* whether read_text succeeds, save how write_text ends.
SubmitAnswer ==
    /\ calls < MaxSubmissions
    /\ \E topic \in Topics, pair \in AnswerPairs, read_ok \in BOOLEAN, save \in SaveOutcomes :
        LET user_answer == pair[1]
            correct_answer == pair[2]
            is_correct == IsCorrect(user_answer, correct_answer)
            progress == UpdateProgress(LoadProgress(progress_file, read_ok), topic,
                                       Result(user_answer, correct_answer))
        IN  /\ progress_file' = CASE save = "ok" -> FileOf(progress)
                                  [] save = "untouched" -> progress_file
                                  [] save = "truncated" -> TruncatedProgress
            /\ submit_ret' = <<[correct |-> is_correct,
                                feedback |-> Feedback(user_answer, correct_answer),
                                progress |-> IF save = "ok" THEN progress ELSE EmptyProgress]>>
            /\ sub_log' = Append(sub_log, LogEntry(topic, user_answer, correct_answer, is_correct))
            /\ io_failed' = (io_failed \/ ~LoadSucceeds(progress_file, read_ok) \/ save # "ok")
    /\ calls' = calls + 1
    /\ UNCHANGED <<serverVars, genVars, kbVars>>

ProgressNext == SubmitAnswer

InitGen == GenInit /\ KBIdle /\ ServerIdle /\ ProgressIdle

SpecGen == InitGen /\ [][GenNext]_vars

InitChunk == ChunkInit /\ GenIdle /\ ServerIdle /\ ProgressIdle

SpecChunk == InitChunk /\ [][ChunkNext]_vars

InitChunkDefault == ChunkDefaultInit /\ GenIdle /\ ServerIdle /\ ProgressIdle

SpecChunkDefault == InitChunkDefault /\ [][ChunkNext]_vars

InitKB == KBInit /\ GenIdle /\ ServerIdle /\ ProgressIdle

SpecKB == InitKB /\ [][KBNext]_vars

InitProgress == ProgressInit /\ GenIdle /\ KBIdle /\ ServerIdle

SpecProgress == InitProgress /\ [][ProgressNext]_vars

InitServer == ServerInit /\ GenIdle /\ KBIdle /\ ProgressIdle

SpecServer == InitServer /\ [][ServerNext]_vars

\* =========================================================================
\* Properties
\* =========================================================================

\* A backend call that fails: it raised, or it answered with empty text.
BackendFails(o) == o.kind = "exc" \/ o.val = ""

\* The cause a failed backend call hands to the client.
CauseOf(o) == IF o.kind = "exc" THEN o.val ELSE EmptyResponse

AllCallsFailed(log) == \A n \in 1..Len(log) : BackendFails(log[n])

\* min(2^i, 10) for i = 0..f-1, in order.
ExpectedSleeps(f) == [n \in 1..f |-> IF 2 ^ (n - 1) < 10 THEN 2 ^ (n - 1) ELSE 10]

\* C1: when the backend fails on its first f calls and then succeeds, with
\* f < max_retries, generate returns the successful text after exactly f+1
\* backend calls and exactly f sleeps of durations min(2^i, 10), i = 0..f-1.
C1_RetryThenSucceed ==
    (backend_log # <<>> /\ ~BackendFails(Last(backend_log))) =>
        LET f == Len(backend_log) - 1 IN
        /\ f < max_retries
        /\ AllCallsFailed(SubSeq(backend_log, 1, f))
        /\ gpc = "returned"
        /\ gen_result = Last(backend_log).val
        /\ gen_raised = NoValue
        /\ sleeps = ExpectedSleeps(f)

\* The spec's scenario: two failures, then success, max_retries = 3.
C1_Witness ==
    /\ max_retries = 3
    /\ gpc = "returned"
    /\ Len(backend_log) = 3
    /\ AllCallsFailed(SubSeq(backend_log, 1, 2))
    /\ sleeps = <<1, 2>>

\* C2: when the backend fails on every call, generate never returns a text,
\* makes exactly max_retries backend calls before it raises, and the error
\* it raises carries the cause of the last failed attempt.
C2_ExhaustedAfterMaxRetries ==
    AllCallsFailed(backend_log) =>
        /\ gpc # "returned"
        /\ gen_result = NoValue
        /\ Len(backend_log) <= max_retries
        /\ (gpc = "attempt" /\ Len(backend_log) = max_retries) => ENABLED GenerateExhausted
        /\ gpc = "raised" =>
            /\ Len(backend_log) = max_retries
            /\ gen_raised.type = "RuntimeError"
            /\ gen_raised.attempts = max_retries
            /\ gen_raised.cause =
                 IF backend_log = <<>> THEN NoValue ELSE CauseOf(Last(backend_log))

\* The spec's scenario: max_retries = 3, three failed calls, the error raised.
C2_Witness ==
    /\ max_retries = 3
    /\ gpc = "raised"
    /\ Len(backend_log) = 3
    /\ AllCallsFailed(backend_log)
    /\ backend_log[2].kind = "exc"
    /\ backend_log[3].kind = "text"
    /\ gen_raised.cause = EmptyResponse

\* ---------------------------------------------------------------- ingestion

\* The vectors are the embeddings of the passages' texts, position by position.
Aligned(vectors, passages) ==
    /\ Len(vectors) = Len(passages)
    /\ \A n \in 1..Len(passages) : vectors[n] = Embed(passages[n].text)

\* The passages are some of the chunks, in the chunks' order.
InChunkOrder(passages) ==
    /\ \A n \in 1..Len(passages) : \E m \in 1..Len(chunks) : passages[n] = chunks[m]
    /\ \A n \in 1..(Len(passages) - 1) :
        passages[n].metadata.start_char < passages[n + 1].metadata.start_char

\* C3: whatever chunks fail to embed, the embeddings handed to the index
\* build and the passages written to the Corpus Store have the same length
\* and are positionally aligned, in original chunk order, and no chunk whose
\* embedding failed is in the Corpus Store.
C3_LockStepFiltering ==
    /\ Aligned(embeddings, valid_chunks)
    /\ index # <<>> =>
        /\ index[1].ntotal = Len(valid_chunks)
        /\ Aligned(index[1].vectors, valid_chunks)
    /\ pc = "done" =>
        /\ index_file.state = "ok"
        /\ chunks_file.state = "ok"
        /\ Aligned(index_file.data[1].vectors, chunks_file.data)
        /\ index_file.data[1].ntotal = Len(chunks_file.data)
        /\ InChunkOrder(chunks_file.data)
        /\ \A n \in 1..Len(chunks_file.data) : chunks_file.data[n].id \notin skipped
        /\ \A m \in 1..Len(chunks) :
            chunks[m].id \notin skipped =>
                \E n \in 1..Len(chunks_file.data) : chunks_file.data[n] = chunks[m]
        /\ Len(chunks_file.data) = Len(chunks) - Cardinality(skipped)

\* The spec's scenario: the embedding of chunk 1 of 3 failed; 2 entries each.
C3_Witness ==
    /\ pc = "done"
    /\ Len(chunks) = 3
    /\ skipped = {"chunk_1"}
    /\ Len(chunks_file.data) = 2
    /\ index_file.data[1].ntotal = 2

\* The two files are one run's pair (or both absent), completely written.
ConsistentPair ==
    /\ index_written_by = chunks_written_by
    /\ index_file.state = chunks_file.state
    /\ index_file.state # "corrupt"

\* C6: the index and the corpus are persisted atomically as a pair: once an
\* ingestion run is over, however it ended, the files a later startup reads
\* are both the previous run's or both the new run's.
C6_AtomicPair == pc = "idle" => ConsistentPair

EmptyCorpusError == "EmptyCorpusError"

\* C7: when the embedding call fails for every chunk, the run fails with an
\* error identifying the empty corpus and writes neither file.
C7_EmptyCorpusError ==
    (pc \in {"done", "failed"} /\ chunks # <<>> /\ Cardinality(skipped) = Len(chunks)) =>
        /\ pc = "failed"
        /\ error = EmptyCorpusError
        /\ index_written_by # run
        /\ chunks_written_by # run

\* C9: in the Corpus Store a run wrote, the passage at position n (from 0)
\* has id "chunk_<n>".
C9_IdsMatchPositions ==
    chunks_file.state = "ok" =>
        \A n \in 1..Len(chunks_file.data) :
            chunks_file.data[n].id = "chunk_" \o ToString(n - 1)

\* -------------------------------------------------------------- VectorStore

\* C5: retrieve never raises; when the index or the corpus did not load it
\* returns the empty sequence without calling the embedder, and when the
\* embedding call or the search fails it returns the empty sequence.
C5_RetrieveNeverRaises ==
    ret # <<>> =>
        /\ ~ret[1].raised
        /\ (index_file.state # "ok" \/ chunks_file.state # "ok") =>
            (ret[1].result = <<>> /\ ~ret[1].embed_called)
        /\ (ret[1].embed_called /\ ~ret[1].embed_ok) => ret[1].result = <<>>
        /\ (ret[1].search_raised \/ ret[1].k <= 0) => ret[1].result = <<>>

\* The query embedding failed on a store that loaded both files.
C5_Witness ==
    /\ ret # <<>>
    /\ store_index # <<>>
    /\ store_chunks # <<>>
    /\ ret[1].embed_called
    /\ ~ret[1].embed_ok
    /\ ret[1].result = <<>>

\* Exactly one of the two files is present, or both were read and the index
\* does not hold as many vectors as the corpus holds passages.
InconsistentFiles ==
    \/ (index_file.state = "absent") # (chunks_file.state = "absent")
    \/ /\ index_file.state = "ok"
       /\ chunks_file.state = "ok"
       /\ index_file.data[1].ntotal # Len(chunks_file.data)

\* C8: a store constructed from an inconsistent pair of files is in the
\* no-knowledge-base state: retrieve returns the empty sequence for every
\* query, never a partial result.
C8_ConsistentPairOnly ==
    (spc = "up" /\ InconsistentFiles /\ ret # <<>>) => ret[1].result = <<>>

\* ------------------------------------------------------------------ chunker

ValidConfig == 0 < OVERLAP /\ OVERLAP < CHUNK_SIZE

\* The positions of the text (from 1) a passage's metadata says it spans.
Span(p) == (p.metadata.start_char + 1)..p.metadata.end_char

\* Every character of the text is in a passage, which holds it at its place.
CoversText ==
    /\ \A n \in 1..Len(chunks) :
        Len(chunks[n].text) = chunks[n].metadata.end_char - chunks[n].metadata.start_char
    /\ \A c \in 1..Len(raw_text) :
        \E n \in 1..Len(chunks) :
            /\ c \in Span(chunks[n])
            /\ chunks[n].text[c - chunks[n].metadata.start_char] = raw_text[c]

\* The number of characters passages n and n+1 share.
SharedChars(n) == Cardinality(Span(chunks[n]) \cap Span(chunks[n + 1]))

\* Every consecutive pair, but the one ending in the last passage, shares
\* exactly OVERLAP characters.
ExactOverlapButLast ==
    \A n \in 1..(Len(chunks) - 1) :
        n + 1 < Len(chunks) => SharedChars(n) = OVERLAP

\* C4 as stated: with 0 < overlap < chunk_size the passages cover the text
\* and every consecutive pair shares exactly overlap characters, except
\* possibly the pair ending in the last passage.
C4_CoverAndOverlap ==
    (pc = "embed" /\ ValidConfig) => (CoversText /\ ExactOverlapButLast)

\* C4 amended: with 0 < overlap < chunk_size the passages cover the text; a
\* consecutive pair shares exactly overlap characters when its first passage
\* has chunk_size characters, and fewer (at least one) when its first
\* passage is clipped by the end of the text; with 2*overlap <= chunk_size
\* only the pair ending in the last passage can fall short.
C4_CoverAndOverlapUnclipped ==
    (pc = "embed" /\ ValidConfig) =>
        /\ CoversText
        /\ \A n \in 1..(Len(chunks) - 1) :
            IF Len(chunks[n].text) = CHUNK_SIZE
            THEN SharedChars(n) = OVERLAP
            ELSE 1 <= SharedChars(n) /\ SharedChars(n) < OVERLAP
        /\ 2 * OVERLAP <= CHUNK_SIZE => ExactOverlapButLast

\* A text of 3 characters cut with chunk_size 4, overlap 3: the first of
\* three passages is already clipped.
C4_Witness ==
    /\ pc = "embed"
    /\ CHUNK_SIZE = 4
    /\ OVERLAP = 3
    /\ Len(raw_text) = 3
    /\ Len(chunks) = 3
    /\ SharedChars(1) = 2

\* C10: the chunker never loops forever: a configuration with
\* chunk_size - overlap <= 0 produces no passage (it is rejected), and a
\* valid one ends with at most one passage per character, the cursor at or
\* past the end of the text.
C10_NeverLoopsForever ==
    IF CHUNK_SIZE - OVERLAP <= 0
    THEN chunks = <<>> /\ pc = "chunk_text"
    ELSE /\ Len(chunks) <= Len(raw_text)
         /\ pc = "embed" => i >= Len(raw_text)

\* ------------------------------------------------------------------- server

\* C11: while one request is in the backoff sleep of generate, another
\* request that is ready to run can make progress: its handler can start.
C11_SleepDoesNotBlock ==
    \A r \in Requests, q \in Requests :
        (r # q /\ reqs[r].pc = "sleep" /\ reqs[q].pc = "pending") => ENABLED Dispatch(q)

\* The passage chunk_text is expected to emit for the j-th cursor position
\* (j from 0) with chunk_size 1000 and overlap 200.
ExpectedSpan(txt, j) ==
    [start_char |-> j * 800,
     end_char |-> Min(j * 800 + 1000, Len(txt))]

\* C12: with chunk_size = 1000 and overlap = 200, chunk_text emits one passage
\* per cursor position j*800 below len(text), in increasing order, with
\* start_char = j*800, end_char = min(j*800 + 1000, len(text)) and text equal
\* to that slice; a text of 2050 characters gives the starts 0, 800, 1600 and
\* a final passage of 450 characters.
C12_DefaultChunking ==
    (CHUNK_SIZE = 1000 /\ OVERLAP = 200) =>
        /\ pc = "chunk_text" =>
              /\ i = Len(chunks) * 800
              /\ \A n \in 1..Len(chunks) : (n - 1) * 800 < Len(raw_text)
        /\ pc = "embed" =>
              Len(chunks) = Cardinality({j \in 0..Len(raw_text) : j * 800 < Len(raw_text)})
        /\ \A n \in 1..Len(chunks) :
              LET e == ExpectedSpan(raw_text, n - 1)
              IN  /\ chunks[n].metadata.start_char = e.start_char
                  /\ chunks[n].metadata.end_char = e.end_char
                  /\ chunks[n].text = SubSeq(raw_text, e.start_char + 1, e.end_char)
        /\ (pc = "embed" /\ Len(raw_text) = 2050) =>
              /\ [n \in 1..Len(chunks) |-> chunks[n].metadata.start_char] = <<0, 800, 1600>>
              /\ Len(Last(chunks).text) = 450

\* The 2050-character text has been chunked into its three passages.
C12_Witness ==
    /\ CHUNK_SIZE = 1000
    /\ OVERLAP = 200
    /\ pc = "embed"
    /\ Len(raw_text) = 2050
    /\ Len(chunks) = 3
    /\ chunks[3].metadata.end_char = 2050
    /\ Len(chunks[3].text) = 450

\* The call of retrieve recorded in ret got positions back from the search.
SearchReturned ==
    /\ ret # <<>>
    /\ ret[1].embed_called
    /\ ret[1].embed_ok
    /\ ~ret[1].search_raised

\* The positions the index search returned for the recorded call.
ReturnedPositions == Search(store_index[1], Embed(ret[1].query), ret[1].k)

InCorpusRange(p) == 0 <= p /\ p < Len(store_chunks)

\* The returned positions that lie in [0, len(corpus)), in search order.
KeptPositions == SelectSeq(ReturnedPositions, InCorpusRange)

\* C13: on a loaded store, retrieve returns exactly corpus[p] for the positions
\* p the search returned that lie in [0, len(corpus)), in search order; every
\* other position is discarded, so the result has at most k passages and
\* every element is an entry of the corpus.
C13_InRangePositionsOnly ==
    (spc = "up" /\ ret # <<>>) =>
        /\ Len(ret[1].result) <= ret[1].k
        /\ \A n \in 1..Len(ret[1].result) :
              \E m \in 1..Len(store_chunks) : ret[1].result[n] = store_chunks[m]
        /\ SearchReturned =>
              ret[1].result = [n \in 1..Len(KeptPositions) |-> store_chunks[KeptPositions[n] + 1]]

\* A search on a skewed pair that also pads: one position is beyond the
\* corpus, one is the padding -1, and one passage is returned.
C13_Witness ==
    /\ spc = "up"
    /\ SearchReturned
    /\ \E n \in 1..Len(ReturnedPositions) : ReturnedPositions[n] = -1
    /\ \E n \in 1..Len(ReturnedPositions) : ReturnedPositions[n] >= Len(store_chunks)
    /\ Len(ret[1].result) >= 1
    /\ Len(ret[1].result) < ret[1].k

\* The number of failed attempts among the backend calls made so far.
FailedAttempts == Cardinality({n \in 1..Len(backend_log) : BackendFails(backend_log[n])})

\* C14: in every execution of generate the number of sleeps equals the number
\* of failed attempts, each failed attempt being followed by its sleep before
\* anything else happens; a call that exhausts max_retries has slept
\* max_retries times, for min(2^i, 10) with i = 0..max_retries-1, the last
\* sleep coming after the final failed attempt and before the error is raised.
C14_SleepAfterEveryFailure ==
    /\ sleeps = ExpectedSleeps(Len(sleeps))
    /\ gpc = "sleep" =>
          /\ BackendFails(Last(backend_log))
          /\ Len(sleeps) = FailedAttempts - 1
          /\ ENABLED GenerateSleep
          /\ ~ENABLED GenerateAttempt
          /\ ~ENABLED GenerateExhausted
    /\ gpc # "sleep" => Len(sleeps) = FailedAttempts
    /\ ENABLED GenerateExhausted =>
          /\ FailedAttempts = max_retries
          /\ Len(sleeps) = max_retries
    /\ gpc = "raised" =>
          /\ FailedAttempts = max_retries
          /\ sleeps = ExpectedSleeps(max_retries)

\* Five failed attempts out of five: the error is raised after five sleeps,
\* the last of them capped at 10.
C14_Witness ==
    /\ max_retries = 5
    /\ gpc = "raised"
    /\ FailedAttempts = 5
    /\ sleeps = <<1, 2, 4, 8, 10>>

\* ----------------------------------------------------------------- progress

\* The submit_answer calls made for topic t, in call order.
SubmissionsFor(t) == SelectSeq(sub_log, LAMBDA e : e.topic = t)

\* What the history holds for one logged call.
HistoryEntryOf(e) ==
    [correct |-> e.correct, user_answer |-> e.user_answer, correct_answer |-> e.correct_answer]

\* The stored entry of topic t agrees with the calls made for t.
TopicEntryMatchesCalls(t) ==
    LET subs == SubmissionsFor(t)
        n == Len(subs)
        kept == IF n < 10 THEN n ELSE 10
        entry == progress_file.data[t]
    IN  IF n = 0
        THEN entry = <<>>
        ELSE /\ entry # <<>>
             /\ entry[1].attempts = n
             /\ entry[1].correct = Cardinality({m \in 1..n : subs[m].correct})
             /\ 0 <= entry[1].correct
             /\ entry[1].correct <= entry[1].attempts
             /\ entry[1].history = [m \in 1..kept |-> HistoryEntryOf(subs[n - kept + m])]

ProgressMatchesCalls ==
    ~io_failed =>
        /\ progress_file.state = "ok"
        /\ \A t \in Topics : TopicEntryMatchesCalls(t)
        /\ \A n \in 1..Len(sub_log) :
              sub_log[n].correct <=>
                  (Lower(Strip(sub_log[n].user_answer)) = Lower(Strip(sub_log[n].correct_answer)))

OtherTopicsUnchanged ==
    (~io_failed' /\ Len(sub_log') = Len(sub_log) + 1) =>
        \A t \in Topics :
            t # Last(sub_log').topic => progress_file'.data[t] = progress_file.data[t]

\* C15: after any sequence of submit_answer calls whose loads and saves
\* succeed, for every topic attempts is the number of submissions for the
\* topic, correct is the number of correct ones with 0 <= correct <= attempts,
\* and history holds the most recent min(attempts, 10) results in submission
\* order; a submission leaves the entries of the other topics unchanged.
C15_ProgressCountsAndHistory ==
    /\ []ProgressMatchesCalls
    /\ [][OtherTopicsUnchanged]_vars

\* Eleven answers on t1, the oldest one trimmed from its history, and one
\* answer on t2, no load or save having failed.
C15_Witness ==
    /\ ~io_failed
    /\ Len(SubmissionsFor("t1")) = 11
    /\ Len(SubmissionsFor("t2")) = 1
    /\ Last(sub_log).topic = "t2"
    /\ progress_file.data["t1"][1].attempts = 11
    /\ Len(progress_file.data["t1"][1].history) = 10
    /\ progress_file.data["t2"][1].attempts = 1

====
